---- MODULE Spec2Model ----
(***************************************************************************)
(* A model of PySpice/Spice/Netlist.py: the element parameter descriptors,  *)
(* the pin/node graph, the Netlist element/model mappings with their lazily *)
(* rebuilt node index, and the Circuit / SubCircuit text serialization.     *)
(*                                                                         *)
(* Python values are modelled as follows.                                   *)
(*  - A str is a TLA+ string; '+' and format() are \o.                      *)
(*  - A dict or a set is the sequence of its entries in ITERATION order     *)
(*    (Python 2 dicts and sets iterate in hash order, not insertion order): *)
(*    an insertion of a new key may land at any position, an update of a    *)
(*    present key keeps its position.                                       *)
(*  - A raw argument value is a tagged record [t, v] (t is "int", "str" or  *)
(*    "seq"), so that validation can tell the kinds apart.                  *)
(*  - An exception is recorded in last.res by the name of its class.        *)
(***************************************************************************)
EXTENDS Integers, Sequences, FiniteSets, TLC

VARIABLES
    elements,       \* Netlist._elements of the circuit (iteration order)
    models,         \* Netlist._models of the circuit (iteration order)
    dirty,          \* Netlist._dirty
    nodes,          \* Netlist._nodes: node name -> Node._elements (element names)
    title,          \* Circuit.title
    global_nodes,   \* Circuit._global_nodes (iteration order)
    includes,       \* Circuit._includes (iteration order)
    parameters,     \* Circuit._parameters (iteration order of [k, v])
    subcircuits,    \* Circuit._subcircuits (iteration order of [k, v]), v names a SubCircuit
    subs,           \* the SubCircuit objects constructed so far, by name
    instance,       \* the Element object under construction/assignment (or NoInstance)
    last            \* the last call: [op, arg, res]

vars == <<elements, models, dirty, nodes, title, global_nodes, includes,
          parameters, subcircuits, subs, instance, last>>

(***************************************************************************)
(* Bounds of the model.                                                    *)
(***************************************************************************)
MaxElems == 2
MaxModels == 1
MaxParams == 2
MaxSubElems == 1
MaxArgs == 4

(***************************************************************************)
(* Generic helpers on sequences used as ordered dicts / sets.               *)
(***************************************************************************)
Range(s) == {s[i] : i \in 1..Len(s)}

\* every sequence obtained from s by inserting x at some position
InsertAny(s, x) ==
    {SubSeq(s, 1, i) \o <<x>> \o SubSeq(s, i + 1, Len(s)) : i \in 0..Len(s)}

StrV(v) == [t |-> "str", v |-> v]
IntV(v) == [t |-> "int", v |-> v]
TupleV(v) == [t |-> "seq", v |-> v]

(***************************************************************************)
(* Python built-ins used by the descriptors.                               *)
(***************************************************************************)
Digits == <<"0", "1", "2", "3", "4", "5", "6", "7", "8", "9">>

IsDigit(c) == \E d \in 1..10 : Digits[d] = c

DigitValue(c) == (CHOOSE d \in 1..10 : Digits[d] = c) - 1

\* a non-empty string of decimal digits, the literals that int() and float() are given here
IsNumeral(s) == Len(s) > 0 /\ \A i \in 1..Len(s) : IsDigit(SubSeq(s, i, i))

RECURSIVE ParseNumeral(_)
ParseNumeral(s) ==
    IF Len(s) = 0 THEN 0
    ELSE 10 * ParseNumeral(SubSeq(s, 1, Len(s) - 1)) + DigitValue(SubSeq(s, Len(s), Len(s)))

Ok(v) == [ok |-> TRUE, v |-> v, err |-> "none"]
Raise(e) == [ok |-> FALSE, v |-> StrV(""), err |-> e]

\* int(value)
PyInt(raw) ==
    CASE raw.t = "int" -> Ok(IntV(raw.v))
      [] raw.t = "str" -> IF IsNumeral(raw.v) THEN Ok(IntV(ParseNumeral(raw.v)))
                          ELSE Raise("ValueError")
      [] OTHER -> Raise("TypeError")

\* float(value)
PyFloat(raw) ==
    CASE raw.t = "int" -> Ok([t |-> "float", v |-> raw.v])
      [] raw.t = "str" -> IF IsNumeral(raw.v) THEN Ok([t |-> "float", v |-> ParseNumeral(raw.v)])
                          ELSE Raise("ValueError")
      [] OTHER -> Raise("TypeError")

\* len(value): an int has none
PyLen(raw) ==
    CASE raw.t = "int" -> Raise("TypeError")
      [] OTHER -> Ok(IntV(Len(raw.v)))

\* value[i] (0-based in the source, 1-based here): a str yields a one-character str
PyItem(raw, i) == IF raw.t = "str" THEN StrV(SubSeq(raw.v, i, i)) ELSE raw.v[i]

RECURSIVE JoinStr(_, _)
JoinStr(strs, sep) ==
    IF Len(strs) = 0 THEN ""
    ELSE IF Len(strs) = 1 THEN strs[1]
    ELSE strs[1] \o sep \o JoinStr(Tail(strs), sep)

\* str(value)
RECURSIVE PyStr(_)
PyStr(raw) ==
    CASE raw.t = "str" -> raw.v
      [] raw.t = "int" -> ToString(raw.v)
      [] raw.t = "float" -> ToString(raw.v) \o ".0"
      [] raw.t = "bool" -> IF raw.v THEN "True" ELSE "False"
      [] raw.t = "none" -> "None"
      [] raw.t = "unit" -> PyStr(raw.v)
      [] OTHER -> "(" \o JoinStr([i \in 1..Len(raw.v) |-> PyStr(raw.v[i])], ", ") \o ")"

\* bool(value)
PyBool(raw) ==
    CASE raw.t = "bool" -> raw.v
      [] raw.t = "none" -> FALSE
      [] raw.t \in {"int", "float"} -> raw.v # 0
      [] raw.t = "unit" -> TRUE
      [] OTHER -> Len(raw.v) > 0

None == [t |-> "none", v |-> 0]
BoolV(b) == [t |-> "bool", v |-> b]

(***************************************************************************)
(* The parameter descriptors (ParameterDescriptor and its subclasses).      *)
(* A descriptor is [attribute_name, kind, position, key_parameter,          *)
(* spice_name, default_value].                                              *)
(***************************************************************************)
Positional(attr, kind, position, key_parameter) ==
    [attribute_name |-> attr, kind |-> kind, position |-> position,
     key_parameter |-> key_parameter, spice_name |-> "", default_value |-> None]

KeyValue(attr, kind, spice_name) ==
    [attribute_name |-> attr, kind |-> kind, position |-> 0,
     key_parameter |-> FALSE, spice_name |-> spice_name,
     default_value |-> IF kind \in {"FlagKey", "BoolKey"} THEN BoolV(FALSE) ELSE None]

\* a key-value descriptor declared with default=...
KeyValueDefault(attr, kind, spice_name, default) ==
    [KeyValue(attr, kind, spice_name) EXCEPT !.default_value = default]

\* the validate method of each descriptor class
validate(kind, raw) ==
    CASE kind = "FloatPositional" ->
             IF raw.t = "unit" THEN Ok(raw) ELSE Ok([t |-> "unit", v |-> raw])
      [] kind \in {"ExpressionPositional", "ElementNamePositional",
                   "ModelPositional", "ExpressionKey"} -> Ok(StrV(PyStr(raw)))
      [] kind = "InitialStatePositional" -> Ok(BoolV(PyBool(raw)))
      [] kind = "IntKey" -> PyInt(raw)
      [] kind = "FloatKey" -> PyFloat(raw)
      [] kind = "FloatPairKey" ->
             IF ~PyLen(raw).ok THEN Raise("TypeError")
             ELSE IF PyLen(raw).v.v = 2
                  THEN IF PyFloat(PyItem(raw, 1)).ok /\ PyFloat(PyItem(raw, 2)).ok
                       THEN Ok(TupleV(<<PyFloat(PyItem(raw, 1)).v, PyFloat(PyItem(raw, 2)).v>>))
                       ELSE Raise(IF ~PyFloat(PyItem(raw, 1)).ok
                                  THEN PyFloat(PyItem(raw, 1)).err
                                  ELSE PyFloat(PyItem(raw, 2)).err)
                  ELSE Raise("ValueError")
      [] OTHER -> Ok(raw)

\* the instance attribute a descriptor stores its value in
Slot(attribute_name) == "_" \o attribute_name

\* ParameterDescriptor.__set__: setattr(instance, '_' + attribute_name, value)
descriptor_set(attrs, descriptor, value) ==
    [a \in DOMAIN attrs \cup {Slot(descriptor.attribute_name)} |->
        IF a = Slot(descriptor.attribute_name) THEN value ELSE attrs[a]]

\* ParameterDescriptor.__get__
descriptor_get(attrs, descriptor) ==
    IF Slot(descriptor.attribute_name) \in DOMAIN attrs
    THEN attrs[Slot(descriptor.attribute_name)]
    ELSE descriptor.default_value

\* nonzero of ParameterDescriptor, FlagKeyParameter and BoolKeyParameter
nonzero(attrs, descriptor) ==
    IF descriptor.kind \in {"FlagKey", "BoolKey"}
    THEN PyBool(descriptor_get(attrs, descriptor))
    ELSE descriptor_get(attrs, descriptor).t # "none"

(***************************************************************************)
(* The element classes.  The concrete classes (their prefix and declared    *)
(* descriptors) live in the element library, outside Netlist.py; the table  *)
(* below declares four of them in the shapes the library uses.              *)
(***************************************************************************)
ElementClasses == {"Resistor", "VoltageSource", "Diode", "CoupledInductor"}

prefix(cls) ==
    CASE cls = "Resistor" -> "R"
      [] cls = "VoltageSource" -> "V"
      [] cls = "Diode" -> "D"
      [] OTHER -> "K"

\* the class's PositionalElementParameter descriptors, in the order the class dict yields them
declared_positional(cls) ==
    CASE cls = "Resistor" -> <<Positional("resistance", "FloatPositional", 0, FALSE)>>
      [] cls = "VoltageSource" -> <<Positional("dc_value", "FloatPositional", 0, FALSE)>>
      [] cls = "Diode" -> <<Positional("model", "ModelPositional", 0, TRUE)>>
      [] OTHER -> <<Positional("inductor1", "ElementNamePositional", 0, FALSE),
                    Positional("inductor2", "ElementNamePositional", 1, FALSE),
                    Positional("coupling_factor", "FloatPositional", 2, FALSE)>>

\* the class's ElementParameter descriptors, in the order the class dict yields them
declared_optional(cls) ==
    CASE cls = "Resistor" -> <<KeyValue("multiplier", "IntKey", "m"),
                               KeyValue("tc", "FloatPairKey", "tc")>>
      [] cls = "Diode" -> <<KeyValue("area", "FloatKey", "area"),
                            KeyValue("off", "FlagKey", "off"),
                            KeyValueDefault("temperature", "FloatKey", "temp", IntV(27))>>
      [] OTHER -> <<>>

\* the pin names of the two constructor shapes used here (TwoPinElement, and no pin)
pin_names(cls) == IF cls = "CoupledInductor" THEN <<>> ELSE <<"plus", "minus">>

(***************************************************************************)
(* ElementParameterMetaClass.__new__                                       *)
(***************************************************************************)
positional_parameters(cls) == declared_positional(cls)

optional_parameters(cls) == declared_optional(cls)

IsKeyParameter(d) == d.key_parameter

IsNotKeyParameter(d) == ~d.key_parameter

\* sorted(): stable, and __cmp__ compares key_parameter only (False < True)
sorted_positional(ds) == SelectSeq(ds, IsNotKeyParameter) \o SelectSeq(ds, IsKeyParameter)

parameters_from_args(cls) ==
    SelectSeq(sorted_positional(positional_parameters(cls)), IsNotKeyParameter)

AttributeNames(ds) == {ds[i].attribute_name : i \in 1..Len(ds)}

DescriptorNamed(cls, attr) ==
    LET ds == positional_parameters(cls) \o optional_parameters(cls)
    IN ds[CHOOSE i \in 1..Len(ds) : ds[i].attribute_name = attr]

IsDescriptor(cls, attr) ==
    attr \in AttributeNames(positional_parameters(cls)) \cup AttributeNames(optional_parameters(cls))

(***************************************************************************)
(* Pin and Element                                                         *)
(***************************************************************************)
\* Pin.__init__ (the pin's element is the record that holds it)
Pin(name, node) == [name |-> name, node |-> node]

Min(a, b) == IF a < b THEN a ELSE b

\* setattr(self, key, value): through the descriptor when the class declares one
SetAttr(cls, attrs, key, value) ==
    IF IsDescriptor(cls, key)
    THEN descriptor_set(attrs, DescriptorNamed(cls, key), value)
    ELSE [a \in DOMAIN attrs \cup {key} |-> IF a = key THEN value ELSE attrs[a]]

\* for parameter, value in zip(self.parameters_from_args, args): setattr(...)
RECURSIVE BindArgs(_, _, _, _)
BindArgs(cls, attrs, ds, args) ==
    IF Len(ds) = 0 \/ Len(args) = 0 THEN attrs
    ELSE BindArgs(cls, SetAttr(cls, attrs, ds[1].attribute_name, args[1]), Tail(ds), Tail(args))

\* for key, value in kwargs.iteritems(): if key in positional or optional: setattr(...)
RECURSIVE BindKwargs(_, _, _)
BindKwargs(cls, attrs, kwargs) ==
    IF Len(kwargs) = 0 THEN attrs
    ELSE BindKwargs(cls,
                    IF kwargs[1].k \in AttributeNames(positional_parameters(cls))
                       \/ Len(optional_parameters(cls)) > 0
                    THEN SetAttr(cls, attrs, kwargs[1].k, kwargs[1].v)
                    ELSE attrs,
                    Tail(kwargs))

EmptyAttrs == [a \in {} |-> None]

\* Element.__init__(self, name, pins, *args, **kwargs)
Element__init__(cls, name, pins, args, kwargs) ==
    [cls |-> cls,
     name |-> PyStr(name),
     pins |-> pins,
     attrs |-> BindKwargs(cls, BindArgs(cls, EmptyAttrs, parameters_from_args(cls), args), kwargs)]

\* TwoPinElement.__init__(self, name, node_plus, node_minus, *args, **kwargs)
TwoPinElement__init__(cls, name, node_plus, node_minus, args, kwargs) ==
    Element__init__(cls, name, <<Pin("plus", node_plus), Pin("minus", node_minus)>>, args, kwargs)

\* Element.name
ElementName(e) == prefix(e.cls) \o e.name

\* Element.nodes
ElementNodes(e) == [i \in 1..Len(e.pins) |-> e.pins[i].node]

(***************************************************************************)
(* DeviceModel                                                             *)
(***************************************************************************)
\* DeviceModel.__init__(self, name, modele_type, **parameters)
DeviceModel__init__(name, modele_type, params) ==
    [name |-> PyStr(name), model_type |-> PyStr(modele_type), parameters |-> params]

(***************************************************************************)
(* Netlist: the element and model mappings and the node index.              *)
(***************************************************************************)
ElementKeys(els) == {ElementName(els[k]) : k \in 1..Len(els)}

ModelKeys(mods) == {mods[k].name : k \in 1..Len(mods)}

ElementAt(els, name) == els[CHOOSE k \in 1..Len(els) : ElementName(els[k]) = name]

\* Netlist.__init__: _nodes = {}
EmptyIndex == [n \in {} |-> {}]

\* _add_element without the membership test: the assignment overwrites silently
_add_element_overwrite(els, d, element) ==
    IF ElementName(element) \notin ElementKeys(els)
    THEN {[elements |-> s, dirty |-> TRUE, res |-> "ok"] : s \in InsertAny(els, element)}
    ELSE {[elements |-> [els EXCEPT ![CHOOSE k \in 1..Len(els) :
                                          ElementName(els[k]) = ElementName(element)] = element],
           dirty |-> TRUE, res |-> "ok"]}

\* Netlist._add_element: the possible outcomes [elements, dirty, res]
_add_element(els, d, element) ==
    IF ElementName(element) \notin ElementKeys(els)
    THEN {[elements |-> s, dirty |-> TRUE, res |-> "ok"] : s \in InsertAny(els, element)}
    ELSE {[elements |-> els, dirty |-> d, res |-> "NameError"]}

\* Netlist.model without the membership test: a second registration replaces the first
model_overwrite(mods, name, modele_type, params) ==
    LET m == DeviceModel__init__(name, modele_type, params)
    IN IF m.name \notin ModelKeys(mods) THEN InsertAny(mods, m)
       ELSE {[mods EXCEPT ![CHOOSE k \in 1..Len(mods) : mods[k].name = m.name] = m]}

\* Netlist.model: the possible outcomes (the model mapping)
model(mods, name, modele_type, params) ==
    LET m == DeviceModel__init__(name, modele_type, params)
    IN IF m.name \notin ModelKeys(mods) THEN InsertAny(mods, m) ELSE {mods}

\* Node.add_element, after the look-up-or-create of the Node by name
RegisterNode(idx, node_name, element_name) ==
    [n \in DOMAIN idx \cup {node_name} |->
        IF n = node_name
        THEN (IF n \in DOMAIN idx THEN idx[n] ELSE {}) \cup {element_name}
        ELSE idx[n]]

\* for node_name in element.nodes: ...
RECURSIVE RegisterElement(_, _, _)
RegisterElement(idx, element_name, node_names) ==
    IF Len(node_names) = 0 THEN idx
    ELSE RegisterElement(RegisterNode(idx, node_names[1], element_name),
                         element_name, Tail(node_names))

\* for element in self.element_iterator(): ...
RECURSIVE RegisterAll(_, _)
RegisterAll(idx, els) ==
    IF Len(els) = 0 THEN idx
    ELSE RegisterAll(RegisterElement(idx, ElementName(els[1]), ElementNodes(els[1])), Tail(els))

\* the rebuild without self._nodes.clear()
RebuildIndex_no_clear(idx, els) == RegisterAll(idx, els)

\* the body of `if self._dirty:` in Netlist.nodes: clear, then register every element
RebuildIndex(idx, els) == RegisterAll(EmptyIndex, els)

\* Netlist.nodes: the index after the read (the flag is left as it is)
NetlistNodes(els, d, idx) == IF d THEN RebuildIndex(idx, els) ELSE idx

\* Netlist.__getitem__
__getitem__(els, mods, idx, attribute_name) ==
    IF attribute_name \in ElementKeys(els)
    THEN [res |-> "element", val |-> attribute_name]
    ELSE IF attribute_name \in ModelKeys(mods)
    THEN [res |-> "model", val |-> attribute_name]
    ELSE IF attribute_name \in DOMAIN idx
    THEN [res |-> "node", val |-> attribute_name]
    ELSE [res |-> "IndexError", val |-> attribute_name]

\* Netlist.__getattr__
__getattr__(els, mods, idx, attribute_name) ==
    LET r == __getitem__(els, mods, idx, attribute_name)
    IN IF r.res = "IndexError" THEN [res |-> "AttributeError", val |-> attribute_name] ELSE r

\* circuit.V(name, node_plus, node_minus, dc_value): the element library's factory
\* for the voltage source, which constructs the element and adds it to the netlist
NetlistV(els, d, name, node_plus, node_minus, dc_value) ==
    _add_element(els, d, TwoPinElement__init__("VoltageSource", name, node_plus, node_minus,
                                               <<dc_value>>, <<>>))

\* the pin i of element k rebound to node
Rebind(els, k, i, node) == [els EXCEPT ![k].pins[i].node = node]

\* add_current_probe that leaves the pin on its node
add_current_probe_no_rebind(els, d, k, i) ==
    LET node == els[k].pins[i].node
        new_node == JoinStr(<<ElementName(els[k]), els[k].pins[i].name>>, "_")
    IN NetlistV(els, d, StrV(new_node), node, new_node, StrV("0"))

\* Pin.add_current_probe(self, circuit), for pin i of the element at k of the
\* circuit's own mapping: the possible outcomes [elements, dirty, res]
add_current_probe(els, d, k, i) ==
    LET node == els[k].pins[i].node
        new_node == JoinStr(<<ElementName(els[k]), els[k].pins[i].name>>, "_")
    IN NetlistV(Rebind(els, k, i, new_node), d, StrV(new_node), node, new_node, StrV("0"))

(***************************************************************************)
(* Serialization.  join_lines, join_list and join_dict are the string       *)
(* helpers of Tools.StringTools, with the separators the specification      *)
(* documents: a newline, a single space, and ", " between k=v pairs.        *)
(***************************************************************************)
join_lines(items, line_prefix) ==
    JoinStr([i \in 1..Len(items) |-> line_prefix \o items[i]], "\n")

join_list(items) == JoinStr(items, " ")

join_dict(d) == JoinStr([i \in 1..Len(d) |-> d[i].k \o "=" \o PyStr(d[i].v)], ", ")

\* the characters of a str, as a sequence of one-character strs
Chars(str) == [i \in 1..Len(str) |-> SubSeq(str, i, i)]

\* FloatPairKeyParameter.str_value, and KeyValueParameter.str_value for the others
str_value(attrs, descriptor) ==
    LET value == descriptor_get(attrs, descriptor)
    IN IF descriptor.kind = "FloatPairKey"
       THEN JoinStr(IF value.t = "str" THEN Chars(value.v)
                    ELSE [i \in 1..Len(value.v) |-> PyStr(value.v[i])], ",")
       ELSE PyStr(value)

\* to_str of each descriptor class (InitialStatePositionalParameter defines
\* to__str_, so it inherits PositionalElementParameter.to_str)
to_str(attrs, descriptor) ==
    CASE descriptor.kind = "FlagKey" -> IF nonzero(attrs, descriptor) THEN "off" ELSE ""
      [] descriptor.kind = "BoolKey" -> IF nonzero(attrs, descriptor) THEN "0" ELSE "1"
      [] descriptor.kind \in {"IntKey", "FloatKey", "FloatPairKey", "ExpressionKey"} ->
             descriptor.spice_name \o "=" \o str_value(attrs, descriptor)
      [] OTHER -> PyStr(descriptor_get(attrs, descriptor))

\* parameter_iterator without the nonzero test: every declared parameter is yielded
parameter_iterator_all(e) == positional_parameters(e.cls) \o optional_parameters(e.cls)

\* Element.parameter_iterator
parameter_iterator(e) ==
    LET IsSet(d) == nonzero(e.attrs, d)
    IN SelectSeq(positional_parameters(e.cls), IsSet) \o SelectSeq(optional_parameters(e.cls), IsSet)

\* Element.format_node_names
format_node_names(e) == join_list(<<ElementName(e), join_list(ElementNodes(e))>>)

\* Element.format_spice_parameters
format_spice_parameters(e) ==
    LET ps == parameter_iterator(e)
    IN join_list([i \in 1..Len(ps) |-> to_str(e.attrs, ps[i])])

\* Element.__str__
Element__str__(e) == join_list(<<format_node_names(e), format_spice_parameters(e)>>)

\* FloatPairKeyParameter.str_value iterates the value: a number is not iterable
IsIterable(value) == value.t \in {"str", "seq"}

\* str(element): the line, or the TypeError of a float-pair token over a number
StrOutcome(e) ==
    LET ps == parameter_iterator(e)
    IN IF \E i \in 1..Len(ps) :
             ps[i].kind = "FloatPairKey" /\ ~IsIterable(descriptor_get(e.attrs, ps[i]))
       THEN [res |-> "TypeError", val |-> ""]
       ELSE [res |-> "ok", val |-> Element__str__(e)]

\* DeviceModel.__str__
DeviceModel__str__(m) ==
    ".model " \o m.name \o " " \o m.model_type \o " (" \o join_dict(m.parameters) \o ")"

\* Netlist.__str__
Netlist__str__(els, mods) ==
    LET netlist == join_lines([k \in 1..Len(els) |-> Element__str__(els[k])], "") \o "\n"
    IN IF Len(mods) > 0
       THEN netlist \o join_lines([k \in 1..Len(mods) |-> DeviceModel__str__(mods[k])], "") \o "\n"
       ELSE netlist

\* SubCircuit.__str__
SubCircuit__str__(sub) ==
    ".subckt " \o sub.name \o " " \o join_list(sub.external_nodes) \o "\n"
        \o Netlist__str__(sub.elements, sub.models)
        \o ".ends\n"

\* iterating a dict yields its keys
DictKeys(d) == [i \in 1..Len(d) |-> d[i].k]

\* Circuit.__str__, with objs the SubCircuit objects the _subcircuits values refer to
Circuit__str__(ttl, incs, globs, params, subckts, objs, els, mods) ==
    LET t0 == ".title " \o ttl \o "\n"
        t1 == IF Len(incs) > 0 THEN t0 \o join_lines(incs, ".include ") \o "\n" ELSE t0
        t2 == IF Len(globs) > 0 THEN t1 \o ".global " \o join_list(globs) \o "\n" ELSE t1
        t3 == IF Len(params) > 0 THEN t2 \o join_lines(DictKeys(params), ".param ") \o "\n" ELSE t2
        t4 == IF Len(subckts) > 0
              THEN t3 \o join_lines([i \in 1..Len(subckts) |-> SubCircuit__str__(objs[subckts[i].v])], "")
              ELSE t3
        t5 == t4 \o Netlist__str__(els, mods)
    IN t5 \o ".end\n"

(***************************************************************************)
(* SubCircuit construction and Circuit's include / parameter / subcircuit.  *)
(***************************************************************************)
\* SubCircuit.__init__(self, name, *nodes)
SubCircuit__init__(name, external_nodes) ==
    [name |-> PyStr(name), external_nodes |-> external_nodes, ground |-> "0",
     elements |-> <<>>, models |-> <<>>, dirty |-> TRUE, nodes |-> EmptyIndex]

\* set.add(x) on a set kept in iteration order
SetAdd(set, x) == IF x \in Range(set) THEN {set} ELSE InsertAny(set, x)

\* d[k] = v on a dict kept in iteration order
DictSet(d, k, v) ==
    IF \E i \in 1..Len(d) : d[i].k = k
    THEN {[d EXCEPT ![CHOOSE i \in 1..Len(d) : d[i].k = k].v = v]}
    ELSE InsertAny(d, [k |-> k, v |-> v])

\* Circuit.include
include(incs, path) == SetAdd(incs, path)

\* Circuit.parameter
parameter(params, name, expression) == DictSet(params, PyStr(name), PyStr(expression))

\* Circuit.subcircuit, the object being referred to by its name
subcircuit(subckts, sub) == DictSet(subckts, PyStr(StrV(sub.name)), sub.name)

(***************************************************************************)
(* SubCircuit.check_nodes                                                  *)
(***************************************************************************)
\* set & other: a list operand is not a set, and the operator raises TypeError
PySetAnd(set, other) ==
    IF other.t = "list" THEN Raise("TypeError") ELSE Ok([t |-> "set", v |-> set \cap other.v])

\* for element in self.element_iterator(): connected_nodes.add(nodes & element.nodes)
\* The first iteration raises: element.nodes is a list (and a set, being unhashable,
\* could not be added to a set either), so no second iteration is ever run.
ConnectedNodes(connected_nodes, node_set, els) ==
    IF Len(els) = 0 THEN Ok(connected_nodes)
    ELSE LET common == PySetAnd(node_set, [t |-> "list", v |-> Range(ElementNodes(els[1]))])
         IN IF ~common.ok THEN common ELSE Raise("TypeError")

\* SubCircuit.check_nodes: [res, val], val the names the NameError lists
check_nodes(sub) ==
    LET node_set == Range(sub.external_nodes)
        connected_nodes == ConnectedNodes({}, node_set, sub.elements)
    IN IF ~connected_nodes.ok THEN [res |-> connected_nodes.err, val |-> {}]
       ELSE IF node_set \ connected_nodes.v # {}
            THEN [res |-> "NameError", val |-> node_set \ connected_nodes.v]
            ELSE [res |-> "ok", val |-> {}]

(***************************************************************************)
(* The inputs the operations are called with.                               *)
(***************************************************************************)
NodeNames == {"0", "1"}

R(name, node_plus, node_minus, resistance) ==
    TwoPinElement__init__("Resistor", StrV(name), node_plus, node_minus, <<resistance>>, <<>>)

V(name, node_plus, node_minus, dc_value) ==
    TwoPinElement__init__("VoltageSource", StrV(name), node_plus, node_minus, <<dc_value>>, <<>>)

\* R and V elements as the element library constructs them: two resistors of the
\* same name, and a voltage source whose name is that of the probe of R1's minus pin
ElementInputs ==
    {R("1", "1", "0", StrV("1k")), R("1", "0", "1", StrV("1k")),
     V("R1_minus", "1", "0", StrV("5"))}

ModelNameInputs == {"R1", "0"}

ModelTypeInputs == {"D", "NPN"}

\* the keyword arguments each registration passes: none for a diode, bf=100 for a transistor
ModelParameterInputs(modele_type) ==
    IF modele_type = "NPN" THEN <<[k |-> "bf", v |-> IntV(100)]>> ELSE <<>>

Identifiers == {"R1", "0", "1", "nothing"}

GlobalNodeInputs == {<<>>, <<"VCC">>}

NoInstance == [cls |-> "none", name |-> "", pins |-> <<>>, attrs |-> EmptyAttrs]

Call(op, arg, res, val) == [op |-> op, arg |-> arg, res |-> res, val |-> val]

(***************************************************************************)
(* The state after Circuit.__init__(title, ground, global_nodes).           *)
(***************************************************************************)
Init ==
    /\ elements = <<>>
    /\ models = <<>>
    /\ dirty = TRUE
    /\ nodes = EmptyIndex
    /\ title = "test"
    /\ global_nodes = <<>>
    /\ includes = <<>>
    /\ parameters = <<>>
    /\ subcircuits = <<>>
    /\ subs = [n \in {} |-> NoInstance]
    /\ instance = NoInstance
    /\ last = Call("Circuit.__init__", "test", "ok", "")

CircuitOnly == <<title, global_nodes, includes, parameters, subcircuits>>

(***************************************************************************)
(* The operations on the circuit's netlist graph.                           *)
(***************************************************************************)
\* circuit._add_element(element)
AddElement(element) ==
    /\ ElementName(element) \in ElementKeys(elements) \/ Len(elements) < MaxElems
    /\ \E r \in _add_element(elements, dirty, element) :
          /\ elements' = r.elements
          /\ dirty' = r.dirty
          /\ last' = Call("_add_element", element, r.res, "")
    /\ UNCHANGED <<models, nodes, CircuitOnly, subs, instance>>

\* circuit.model(name, modele_type)
Model(name, modele_type) ==
    /\ name \in ModelKeys(models) \/ Len(models) < MaxModels
    /\ models' \in model(models, StrV(name), StrV(modele_type), ModelParameterInputs(modele_type))
    /\ last' = Call("model", <<name, modele_type>>, "ok", "")
    /\ UNCHANGED <<elements, dirty, nodes, CircuitOnly, subs, instance>>

\* circuit.nodes
ReadNodes ==
    /\ nodes' = NetlistNodes(elements, dirty, nodes)
    /\ last' = Call("nodes", "", "ok", DOMAIN nodes')
    /\ UNCHANGED <<elements, models, dirty, CircuitOnly, subs, instance>>

\* circuit[identifier]
GetItem(identifier) ==
    /\ LET r == __getitem__(elements, models, nodes, identifier)
       IN last' = Call("__getitem__", identifier, r.res, r.val)
    /\ UNCHANGED <<elements, models, dirty, nodes, CircuitOnly, subs, instance>>

\* circuit.<identifier>
GetAttr(identifier) ==
    /\ LET r == __getattr__(elements, models, nodes, identifier)
       IN last' = Call("__getattr__", identifier, r.res, r.val)
    /\ UNCHANGED <<elements, models, dirty, nodes, CircuitOnly, subs, instance>>

\* the composite name of the probe that add_current_probe adds for pin i of element k
ProbeName(els, k, i) == "V" \o ElementName(els[k]) \o "_" \o els[k].pins[i].name

\* circuit.<element>.pins[i].add_current_probe(circuit)
AddCurrentProbe(k, i) ==
    /\ ProbeName(elements, k, i) \in ElementKeys(elements) \/ Len(elements) < MaxElems
    /\ \E r \in add_current_probe(elements, dirty, k, i) :
          /\ elements' = r.elements
          /\ dirty' = r.dirty
          /\ last' = Call("add_current_probe",
                          [element |-> ElementName(elements[k]), pin |-> i], r.res, "")
    /\ UNCHANGED <<models, nodes, CircuitOnly, subs, instance>>

Next ==
    \/ \E element \in ElementInputs : AddElement(element)
    \/ \E name \in ModelNameInputs, modele_type \in ModelTypeInputs : Model(name, modele_type)
    \/ ReadNodes
    \/ \E identifier \in Identifiers : GetItem(identifier)
    \/ \E identifier \in Identifiers : GetAttr(identifier)
    \/ \E k \in 1..Len(elements) : \E i \in 1..Len(elements[k].pins) : AddCurrentProbe(k, i)

Spec == Init /\ [][Next]_vars

(***************************************************************************)
(* Properties of the netlist graph.                                        *)
(***************************************************************************)
\* the node names some pin of some element is bound to
BoundNodeNames(els) == UNION {Range(ElementNodes(els[k])) : k \in 1..Len(els)}

\* the names of the elements with a pin on node n
ElementsOn(els, n) == {ElementName(els[k]) : k \in {j \in 1..Len(els) : n \in Range(ElementNodes(els[j]))}}

ExpectedIndex(els) == [n \in BoundNodeNames(els) |-> ElementsOn(els, n)]

\* C1: add_element(e) with e's composite name already a key of the element mapping
\* fails with the duplicate-name error (NameError) and leaves the graph as it was.
C1_DuplicateNameLeavesGraphUnmodified ==
    [][(last'.op = "_add_element" /\ ElementName(last'.arg) \in ElementKeys(elements))
         => /\ last'.res = "NameError"
            /\ elements' = elements
            /\ Len(elements') = Len(elements)
            /\ <<models, dirty, nodes>>' = <<models, dirty, nodes>>]_vars

\* a rejected insertion of an element that differs from the stored one of that name
C1_Witness ==
    /\ last.op = "_add_element"
    /\ last.res = "NameError"
    /\ ElementName(last.arg) \in ElementKeys(elements)
    /\ ElementAt(elements, ElementName(last.arg)) # last.arg

\* the call add_current_probe(circuit) of a step, as [k, i, N, syn]: the pin i of the
\* element at k, bound to N before the call, and the synthetic node name
ProbeCall(call) ==
    LET k == CHOOSE j \in 1..Len(elements) : ElementName(elements[j]) = call.arg.element
    IN [k |-> k, i |-> call.arg.pin, N |-> elements[k].pins[call.arg.pin].node,
        syn |-> call.arg.element \o "_" \o elements[k].pins[call.arg.pin].name]

\* the step rebinds the pin to syn and keeps every other binding of the old elements
ProbeRebindsOnlyThePin(c) ==
    /\ \A name \in ElementKeys(elements) :
          /\ name \in ElementKeys(elements')
          /\ ElementAt(elements', name).cls = ElementAt(elements, name).cls
          /\ \A j \in 1..Len(ElementAt(elements, name).pins) :
                ElementAt(elements', name).pins[j].node =
                    IF name = ElementName(elements[c.k]) /\ j = c.i
                    THEN c.syn
                    ELSE ElementAt(elements, name).pins[j].node

\* the step inserts exactly one element, a zero-valued voltage source on [N, syn]
ProbeInsertsOne(c) ==
    /\ Len(elements') = Len(elements) + 1
    /\ \E name \in ElementKeys(elements') \ ElementKeys(elements) :
          /\ ElementKeys(elements') = ElementKeys(elements) \cup {name}
          /\ ElementAt(elements', name).cls = "VoltageSource"
          /\ ElementNodes(ElementAt(elements', name)) = <<c.N, c.syn>>
          /\ PyStr(ElementAt(elements', name).attrs["_dc_value"]) = "0"

SecondProbeInARow ==
    /\ last.op = "add_current_probe"
    /\ last.res = "ok"
    /\ last'.op = "add_current_probe"
    /\ last'.arg = last.arg

C6_NodesIndexIsExact ==
    last.op = "nodes"
        => /\ nodes = ExpectedIndex(elements)
           /\ last.val = BoundNodeNames(elements)
           /\ NetlistNodes(elements, dirty, nodes) = nodes

\* a read after a probe moved R1's minus pin off a node that R1 was registered on
C6_Witness ==
    /\ last.op = "nodes"
    /\ "R1" \in ElementKeys(elements)
    /\ "VR1_minus" \in ElementKeys(elements)
    /\ "R1_minus" \in DOMAIN nodes
    /\ nodes["R1_minus"] = {"R1", "VR1_minus"}
    /\ "0" \in DOMAIN nodes
    /\ "R1" \notin nodes["0"]

\* C7: a lookup resolves to the element of that name, else the model of that name,
\* else the node name when some pin is bound to it, and fails only otherwise,
\* whether or not `nodes` has been read since the last insertion.
C7_LookupResolvesElementModelNode ==
    last.op \in {"__getitem__", "__getattr__"}
        => last.res = IF last.arg \in ElementKeys(elements) THEN "element"
                      ELSE IF last.arg \in ModelKeys(models) THEN "model"
                      ELSE IF last.arg \in BoundNodeNames(elements) THEN "node"
                      ELSE IF last.op = "__getitem__" THEN "IndexError"
                      ELSE "AttributeError"

\* C11: a model call whose name is already registered raises nothing and leaves the
\* model mapping as it was, so the model registered first (its type and its
\* parameters) stays; no step ever replaces or removes a registered model; the
\* elements, the dirty flag and the node index are untouched by the call.
C11_ModelFirstRegistrationWins ==
    [][/\ \A k \in 1..Len(models) : \E j \in 1..Len(models') : models'[j] = models[k]
       /\ (last'.op = "model" /\ last'.arg[1] \in ModelKeys(models)) =>
             /\ last'.res = "ok"
             /\ models' = models
             /\ elements' = elements /\ dirty' = dirty /\ nodes' = nodes]_vars

\* a second registration under a registered name, with another type, was just made
C11_Witness ==
    /\ last.op = "model"
    /\ \E k \in 1..Len(models) :
          /\ models[k].name = last.arg[1]
          /\ models[k].model_type # last.arg[2]
          /\ models[k].parameters # ModelParameterInputs(last.arg[2])
    /\ Len(elements) > 0

\* C15: every successful element insertion sets the dirty flag; right after any
\* read of `nodes` the flag is false; and a read made while the flag is false
\* (no insertion since the last read) leaves the index as it is.
C15_DirtyFlagIsClearedByRead ==
    /\ [](last.op = "nodes" => ~dirty)
    /\ [][/\ (last'.op = "_add_element" /\ last'.res = "ok" /\ elements' # elements) => dirty'
          /\ (last'.op = "nodes" /\ ~dirty) => nodes' = nodes]_vars

(***************************************************************************)
(* Building and rendering a Circuit.                                       *)
(***************************************************************************)
IncludeInputs == {"models.lib", "extra.lib"}

ParameterNameInputs == {"a", "b"}

ExpressionInputs == {"1", "2*a"}

RenderElementInputs == {R("1", "1", "0", StrV("1k")), V("in", "1", "0", StrV("5"))}

ExternalNodeInputs == {<<>>, <<"in", "out">>}

SubElementInputs == {R("1", "in", "out", StrV("1k"))}

InitRender ==
    /\ elements = <<>>
    /\ models = <<>>
    /\ dirty = TRUE
    /\ nodes = EmptyIndex
    /\ title = "test"
    /\ global_nodes \in GlobalNodeInputs
    /\ includes = <<>>
    /\ parameters = <<>>
    /\ subcircuits = <<>>
    /\ subs = [n \in {} |-> NoInstance]
    /\ instance = NoInstance
    /\ last = Call("Circuit.__init__", "test", "ok", "")

NetlistOnly == <<elements, models, dirty, nodes>>

\* circuit.include(path)
Include(path) ==
    /\ includes' \in include(includes, path)
    /\ last' = Call("include", "", "ok", "")
    /\ UNCHANGED <<NetlistOnly, title, global_nodes, parameters, subcircuits, subs, instance>>

\* circuit.parameter(name, expression)
Parameter(name, expression) ==
    /\ (\E i \in 1..Len(parameters) : parameters[i].k = name) \/ Len(parameters) < MaxParams
    /\ parameters' \in parameter(parameters, StrV(name), StrV(expression))
    /\ last' = Call("parameter", "", "ok", "")
    /\ UNCHANGED <<NetlistOnly, title, global_nodes, includes, subcircuits, subs, instance>>

\* SubCircuit(name, *external_nodes)
NewSubCircuit(name, external_nodes) ==
    /\ name \notin DOMAIN subs
    /\ subs' = [n \in DOMAIN subs \cup {name} |->
                   IF n = name THEN SubCircuit__init__(StrV(name), external_nodes) ELSE subs[n]]
    /\ last' = Call("SubCircuit.__init__", name, "ok", "")
    /\ UNCHANGED <<NetlistOnly, CircuitOnly, instance>>

\* subs[name]._add_element(element)
SubAddElement(name, element) ==
    /\ name \in DOMAIN subs
    /\ ElementName(element) \in ElementKeys(subs[name].elements)
          \/ Len(subs[name].elements) < MaxSubElems
    /\ \E r \in _add_element(subs[name].elements, subs[name].dirty, element) :
          /\ subs' = [subs EXCEPT ![name].elements = r.elements, ![name].dirty = r.dirty]
          /\ last' = Call("SubCircuit._add_element", element, r.res, "")
    /\ UNCHANGED <<NetlistOnly, CircuitOnly, instance>>

\* circuit.subcircuit(subs[name])
Attach(name) ==
    /\ name \in DOMAIN subs
    /\ subcircuits' \in subcircuit(subcircuits, subs[name])
    /\ last' = Call("subcircuit", name, "ok", "")
    /\ UNCHANGED <<NetlistOnly, title, global_nodes, includes, parameters, subs, instance>>

\* str(circuit) going through the `nodes` property, which rebuilds the index
Render_reading_nodes ==
    /\ nodes' = NetlistNodes(elements, dirty, nodes)
    /\ last' = Call("__str__", "", "ok",
                    Circuit__str__(title, includes, global_nodes, parameters, subcircuits,
                                   subs, elements, models))
    /\ UNCHANGED <<elements, models, dirty, CircuitOnly, subs, instance>>

\* str(circuit)
Render ==
    /\ last' = Call("__str__", "", "ok",
                    Circuit__str__(title, includes, global_nodes, parameters, subcircuits,
                                   subs, elements, models))
    /\ UNCHANGED <<NetlistOnly, CircuitOnly, subs, instance>>

NextRender ==
    \/ \E path \in IncludeInputs : Include(path)
    \/ \E name \in ParameterNameInputs, expression \in ExpressionInputs : Parameter(name, expression)
    \/ \E external_nodes \in ExternalNodeInputs : NewSubCircuit("amp", external_nodes)
    \/ \E element \in SubElementInputs : SubAddElement("amp", element)
    \/ Attach("amp")
    \/ \E element \in RenderElementInputs : AddElement(element)
    \/ Model("D1", "D")
    \/ Render

SpecRender == InitRender /\ [][NextRender]_vars

(***************************************************************************)
(* Properties of the rendered circuit.                                      *)
(***************************************************************************)
\* the pieces of text between newlines
RECURSIVE SplitLines(_, _)
SplitLines(text, current) ==
    IF Len(text) = 0 THEN <<current>>
    ELSE IF SubSeq(text, 1, 1) = "\n"
         THEN <<current>> \o SplitLines(SubSeq(text, 2, Len(text)), "")
         ELSE SplitLines(SubSeq(text, 2, Len(text)), current \o SubSeq(text, 1, 1))

\* the newline-terminated lines of text
TextLines(text) ==
    LET pieces == SplitLines(text, "")
    IN IF pieces[Len(pieces)] = "" THEN SubSeq(pieces, 1, Len(pieces) - 1) ELSE pieces

StartsWith(str, start) == Len(str) >= Len(start) /\ SubSeq(str, 1, Len(start)) = start

\* line i lies in a sub-circuit's rendering, from its .subckt line to its .ends line
InSubckt(lines, i) ==
    Cardinality({j \in 1..i : StartsWith(lines[j], ".subckt ")})
        > Cardinality({j \in 1..(i - 1) : lines[j] = ".ends"})

\* the section of the circuit's rendering that line i belongs to: 1 .title,
\* 2 .include, 3 .global, 4 .param, 5 sub-circuits, 6 elements, 7 models, 8 .end,
\* and 0 for a blank line outside the sub-circuits
Section(lines, i) ==
    CASE InSubckt(lines, i) -> 5
      [] lines[i] = "" -> 0
      [] StartsWith(lines[i], ".title ") -> 1
      [] StartsWith(lines[i], ".include ") -> 2
      [] StartsWith(lines[i], ".global ") -> 3
      [] StartsWith(lines[i], ".param ") -> 4
      [] StartsWith(lines[i], ".model ") -> 7
      [] lines[i] = ".end" -> 8
      [] OTHER -> 6

SectionIsBacked(section) ==
    CASE section = 2 -> Len(includes) > 0
      [] section = 3 -> Len(global_nodes) > 0
      [] section = 4 -> Len(parameters) > 0
      [] section = 5 -> Len(subcircuits) > 0
      [] section = 6 -> Len(elements) > 0
      [] section = 7 -> Len(models) > 0
      [] OTHER -> TRUE

\* C2: the rendered circuit has its sections in the order .title, .include, .global,
\* .param, sub-circuits, elements, models, .end, and a section whose collection is
\* empty contributes no line, not even a blank one (the only blank lines outside
\* the sub-circuits are those that separate two sub-circuits).
C2_SectionsInOrderAndEmptyOnesOmitted ==
    last.op = "__str__"
        => LET lines == TextLines(last.val)
           IN /\ \A i, j \in 1..Len(lines) :
                    (i < j /\ Section(lines, i) # 0 /\ Section(lines, j) # 0)
                        => Section(lines, i) <= Section(lines, j)
              /\ \A section \in 1..8 :
                    (\E i \in 1..Len(lines) : Section(lines, i) = section)
                        <=> SectionIsBacked(section)
              /\ \A i \in 1..Len(lines) :
                    Section(lines, i) = 0
                        => /\ i > 1 /\ lines[i - 1] = ".ends"
                           /\ i < Len(lines) /\ StartsWith(lines[i + 1], ".subckt ")

\* C3: for every parameter registered with parameter(name, expression) the rendered
\* text has one line `.param <name>=<expression>` with the expression set last.
C3_ParamLineCarriesNameAndExpression ==
    last.op = "__str__"
        => LET lines == TextLines(last.val)
           IN \A p \in 1..Len(parameters) :
                 Cardinality({i \in 1..Len(lines) :
                                 lines[i] = ".param " \o parameters[p].k \o "=" \o parameters[p].v}) = 1

\* the lines the claim expects of the netlist body: one per element, then one per model
ExpectedBody(els, mods) ==
    [k \in 1..Len(els) |-> Element__str__(els[k])]
        \o [k \in 1..Len(mods) |-> DeviceModel__str__(mods[k])]

\* the rendered text ends with exactly the expected body lines, then .end
BodyIsRendered(text, els, mods) ==
    LET lines == TextLines(text)
        body == ExpectedBody(els, mods)
        first == Len(lines) - Len(body)
    IN /\ first >= 2
       /\ lines[Len(lines)] = ".end"
       /\ SubSeq(lines, first, Len(lines) - 1) = body
       /\ Section(lines, first - 1) \in 1..5

\* a successful insertion puts the element after those inserted before it
InsertedLast ==
    (last'.op = "_add_element" /\ last'.res = "ok") => elements' = Append(elements, last'.arg)

\* C12: the body of the rendered netlist is one line per element, in the order the
\* elements were inserted (every successful insertion puts the new element after
\* the earlier ones in the order rendered), followed by one line per model if and
\* only if a model exists, and by nothing else.
C12_BodyIsElementsInInsertionOrderThenModels ==
    /\ [](last.op = "__str__" => BodyIsRendered(last.val, elements, models))
    /\ [][InsertedLast]_vars

\* C14: str(circuit) is a pure read: the call changes none of the elements (their
\* pin bindings included), models, sub-circuits, includes, parameters, dirty flag
\* and node index, and the text it returns is the text a further call on the
\* resulting state returns, so two calls with no mutation in between agree.
C14_RenderingIsAPureRead ==
    [][last'.op = "__str__" =>
          /\ UNCHANGED <<elements, models, subcircuits, subs, includes, parameters,
                         dirty, nodes, title, global_nodes>>
          /\ last'.val = Circuit__str__(title', includes', global_nodes', parameters',
                                        subcircuits', subs', elements', models')
          /\ last.op = "__str__" => last'.val = last.val]_vars

\* a circuit with elements, a model, a sub-circuit, an include and a parameter was rendered
C14_Witness ==
    /\ last.op = "__str__"
    /\ Len(elements) = 2 /\ Len(models) = 1 /\ Len(subcircuits) = 1
    /\ Len(includes) = 2 /\ Len(parameters) = 2
    /\ "amp" \in DOMAIN subs /\ Len(subs["amp"].elements) = 1
    /\ dirty

(***************************************************************************)
(* Constructing an element and assigning its parameters.                    *)
(***************************************************************************)
\* the positional arguments 1, 2, ..., n
ArgsInputs == {[i \in 1..n |-> IntV(i)] : n \in 0..MaxArgs}

\* the keyword arguments and the raw values tried (tuples: the values are of several kinds)
KwargsInputs ==
    <<<<>>,
      <<[k |-> "tc", v |-> TupleV(<<IntV(1), IntV(2), IntV(3)>>)]>>,
      <<[k |-> "multiplier", v |-> StrV("abc")]>>,
      <<[k |-> "bogus", v |-> IntV(1)]>>>>

RawInputs ==
    <<IntV(3), StrV("12"), StrV("abc"),
      TupleV(<<IntV(1), IntV(2)>>), TupleV(<<IntV(1), IntV(2), IntV(3)>>)>>

Untouched == <<elements, models, dirty, nodes, title, global_nodes, includes,
               parameters, subcircuits>>

\* cls(name, nodes..., *args, **kwargs)
Construct(cls, args, kwargs) ==
    /\ instance' = IF Len(pin_names(cls)) = 2
                   THEN TwoPinElement__init__(cls, StrV("1"), "1", "0", args, kwargs)
                   ELSE Element__init__(cls, StrV("1"), <<>>, args, kwargs)
    /\ last' = Call("Element.__init__", [cls |-> cls, args |-> args, kwargs |-> kwargs], "ok", "")
    /\ UNCHANGED <<Untouched, subs>>

\* instance.<attr> = raw, attr a declared parameter of the instance's class
Assign(attr, raw) ==
    /\ instance.cls \in ElementClasses
    /\ IsDescriptor(instance.cls, attr)
    /\ instance' = [instance EXCEPT !.attrs = SetAttr(instance.cls, @, attr, raw)]
    /\ last' = Call("__set__", [attr |-> attr, raw |-> raw], "ok", "")
    /\ UNCHANGED <<Untouched, subs>>

\* str(instance)
StrElement ==
    /\ instance.cls \in ElementClasses
    /\ last' = Call("Element.__str__", "", StrOutcome(instance).res, StrOutcome(instance).val)
    /\ UNCHANGED <<Untouched, subs, instance>>

AttributeInputs ==
    UNION {AttributeNames(positional_parameters(cls)) \cup AttributeNames(optional_parameters(cls)) :
              cls \in ElementClasses}

NextElement ==
    \/ \E cls \in ElementClasses, args \in ArgsInputs, kw \in 1..Len(KwargsInputs) :
          Construct(cls, args, KwargsInputs[kw])
    \/ \E attr \in AttributeInputs, raw \in 1..Len(RawInputs) : Assign(attr, RawInputs[raw])
    \/ StrElement

SpecElement == Init /\ [][NextElement]_vars

\* the raw value is what the instance holds for the parameter attr
Stored(attr, raw) ==
    /\ Slot(attr) \in DOMAIN instance.attrs
    /\ instance.attrs[Slot(attr)].t = raw.t
    /\ instance.attrs[Slot(attr)].v = raw.v

\* C8: constructing an element with a number of positional arguments other than
\* the number N of its positional fields not flagged as key parameters fails with
\* an arity error; with exactly N arguments every such field is bound.
C8_PositionalArityIsChecked ==
    last.op = "Element.__init__"
        => LET from_args == parameters_from_args(last.arg.cls)
           IN IF Len(last.arg.args) # Len(from_args)
              THEN last.res # "ok"
              ELSE /\ last.res = "ok"
                   /\ \A i \in 1..Len(from_args) :
                         Slot(from_args[i].attribute_name) \in DOMAIN instance.attrs

\* the assignment of raw to the parameter attr of class cls is rejected and raw is not kept
Rejected(cls, attr, raw) ==
    ~validate(DescriptorNamed(cls, attr).kind, raw).ok
        => /\ last.res = validate(DescriptorNamed(cls, attr).kind, raw).err
           /\ ~Stored(attr, raw)

\* C9: assigning to a parameter a raw value that cannot be coerced to the field's
\* kind fails at assignment time, at construction or later, and the value is not
\* stored in the element.
C9_InvalidValueIsRejected ==
    /\ last.op = "__set__" => Rejected(instance.cls, last.arg.attr, last.arg.raw)
    /\ last.op = "Element.__init__"
          => /\ \A i \in 1..Min(Len(parameters_from_args(last.arg.cls)), Len(last.arg.args)) :
                   Rejected(last.arg.cls, parameters_from_args(last.arg.cls)[i].attribute_name,
                            last.arg.args[i])
             /\ \A j \in 1..Len(last.arg.kwargs) :
                   IsDescriptor(last.arg.cls, last.arg.kwargs[j].k)
                       => Rejected(last.arg.cls, last.arg.kwargs[j].k, last.arg.kwargs[j].v)

\* the parameter was assigned, at construction or later
Assigned(d) == Slot(d.attribute_name) \in DOMAIN instance.attrs

\* the value held for the parameter is a value to render: not None, and true for a flag
HoldsValue(d, value) ==
    IF d.kind \in {"FlagKey", "BoolKey"} THEN PyBool(value) ELSE value.t # "none"

\* a set field: assigned, with a value to render
IsSetField(d) == Assigned(d) /\ HoldsValue(d, instance.attrs[Slot(d.attribute_name)])

\* a field that is set, or never assigned and declared with a default to render
IsSetOrDefaulted(d) == IsSetField(d) \/ (~Assigned(d) /\ HoldsValue(d, d.default_value))

\* the declared fields of the instance: the positional ones, then the key-value ones
DeclaredFields == positional_parameters(instance.cls) \o optional_parameters(instance.cls)

TokensOf(fields) == [i \in 1..Len(fields) |-> to_str(instance.attrs, fields[i])]

SubCircuitNames == {"amp", "buf"}

CheckedExternalNodeInputs == {<<>>, <<"in">>, <<"in", "out">>}

CheckedElementInputs ==
    {R("1", "in", "out", StrV("1k")), R("1", "in", "0", StrV("1k")), R("2", "out", "0", StrV("1k"))}

\* subs[name].check_nodes()
CheckNodes(name) ==
    /\ name \in DOMAIN subs
    /\ LET r == check_nodes(subs[name])
       IN last' = Call("check_nodes", name, r.res, r.val)
    /\ UNCHANGED <<Untouched, subs, instance>>

NextSub ==
    \/ \E name \in SubCircuitNames, external_nodes \in CheckedExternalNodeInputs :
          NewSubCircuit(name, external_nodes)
    \/ \E name \in SubCircuitNames, element \in CheckedElementInputs : SubAddElement(name, element)
    \/ \E name \in SubCircuitNames : CheckNodes(name)

SpecSub == Init /\ [][NextSub]_vars

\* the external nodes of sub that are in no contained element's node list
Unconnected(sub) ==
    {n \in Range(sub.external_nodes) :
        \A k \in 1..Len(sub.elements) : n \notin Range(ElementNodes(sub.elements[k]))}

\* C10: check_nodes succeeds when every external node is in the node list of some
\* contained element, and otherwise fails with the unconnected-node error (NameError)
\* that lists exactly the external nodes in no element's node list.
C10_CheckNodesReportsUnconnected ==
    last.op = "check_nodes"
        => IF Unconnected(subs[last.arg]) = {}
           THEN last.res = "ok"
           ELSE last.res = "NameError" /\ last.val = Unconnected(subs[last.arg])

====
